---- MODULE Spec2Model ----
(***************************************************************************)
(* Model of the CUBRO -> ALVIC translator (src/translator.py).             *)
(*                                                                         *)
(* Text is a sequence of one-character strings, so that str.strip,         *)
(* str.upper, str.casefold, str.split and the "in" test are computed and   *)
(* not assumed.  A table cell is a record [na, text]: na is pandas' NaN    *)
(* (an empty CSV field), text is the field as written in the file.         *)
(* Numbers are kept in tenths of a millimetre (one fractional digit), so   *)
(* that int(float(x)) truncates something.                                 *)
(***************************************************************************)
EXTENDS Integers, Sequences, FiniteSets, TLC

VARIABLES
    \* translate_and_split
    pc,            \* "start" | "loop" | "done" | "raised"
    env,           \* the files of the run: catalog file present, catalog rows, input columns
    db,            \* load_alvic_db's result
    inp,           \* the input rows iterated so far
    out_rows,      \* out_rows
    machined,      \* the two returned partitions
    non_machined,
    err,           \* the exception that ended the run, "" when none
    \* find_best_match called on its own
    m_db, m_w, m_h, m_pc, m_res,
    \* load_alvic_db called on its own
    l_csv, l_env, l_pc, l_db,
    \* _rename_columns_with_synonyms called on its own
    r_cols, r_pc, r_out

pipe_vars == <<pc, env, db, inp, out_rows, machined, non_machined, err>>
match_vars == <<m_db, m_w, m_h, m_pc, m_res>>
load_vars == <<l_csv, l_env, l_pc, l_db>>
rename_vars == <<r_cols, r_pc, r_out>>
vars == <<pipe_vars, match_vars, load_vars, rename_vars>>

-----------------------------------------------------------------------------
(* Bounds *)

MaxRecords == 2     \* input rows of a run
MaxDb == 3          \* catalog entries handed to find_best_match
MaxCsvRows == 2     \* rows of a catalog file
MaxCols == 3        \* columns of an input header

-----------------------------------------------------------------------------
(* Python's str methods, on the characters the model's texts are made of *)

Lowers == <<"a","b","c","d","e","f","g","h","i","j","k","l","m","n","o","p","q","r","s","t","u","v","w","x","y","z","í","ñ">>
Uppers == <<"A","B","C","D","E","F","G","H","I","J","K","L","M","N","O","P","Q","R","S","T","U","V","W","X","Y","Z","Í","Ñ">>
Digits == <<"0","1","2","3","4","5","6","7","8","9">>

PosIn(c, s) == CHOOSE i \in DOMAIN s : s[i] = c
IsIn(c, s) == \E i \in DOMAIN s : s[i] = c

upper_char(c) == IF IsIn(c, Lowers) THEN Uppers[PosIn(c, Lowers)] ELSE c
lower_char(c) == IF IsIn(c, Uppers) THEN Lowers[PosIn(c, Uppers)] ELSE c

str_upper(s) == [i \in DOMAIN s |-> upper_char(s[i])]
str_casefold(s) == [i \in DOMAIN s |-> lower_char(s[i])]

IsSpace(c) == c \in {" ", "\t"}

RECURSIVE str_lstrip(_)
str_lstrip(s) == IF s # <<>> /\ IsSpace(Head(s)) THEN str_lstrip(Tail(s)) ELSE s

RECURSIVE str_rstrip(_)
str_rstrip(s) ==
    IF s # <<>> /\ IsSpace(s[Len(s)]) THEN str_rstrip(SubSeq(s, 1, Len(s) - 1)) ELSE s

str_strip(s) == str_rstrip(str_lstrip(s))

\* s.split(): the maximal runs of non-space characters, in order
RECURSIVE str_split(_, _)
str_split(s, word) ==
    IF s = <<>> THEN (IF word = <<>> THEN <<>> ELSE <<word>>)
    ELSE IF IsSpace(Head(s))
         THEN (IF word = <<>> THEN <<>> ELSE <<word>>) \o str_split(Tail(s), <<>>)
         ELSE str_split(Tail(s), Append(word, Head(s)))

\* " ".join(words)
RECURSIVE str_join(_)
str_join(words) ==
    IF words = <<>> THEN <<>>
    ELSE IF Len(words) = 1 THEN words[1]
    ELSE words[1] \o <<" ">> \o str_join(Tail(words))

\* sub in s
str_contains(sub, s) ==
    \E i \in 1..(Len(s) - Len(sub) + 1) : SubSeq(s, i, i + Len(sub) - 1) = sub

-----------------------------------------------------------------------------
(* Cells and numbers *)

NA == [na |-> TRUE, text |-> <<>>]
Cell(t) == [na |-> FALSE, text |-> t]

\* str(x): NaN prints as "nan"
py_str(x) == IF x.na THEN <<"n","a","n">> ELSE x.text

IsDigits(s) == \A i \in DOMAIN s : IsIn(s[i], Digits)

RECURSIVE DigitsVal(_)
DigitsVal(s) ==
    IF s = <<>> THEN 0 ELSE 10 * DigitsVal(SubSeq(s, 1, Len(s) - 1)) + (PosIn(s[Len(s)], Digits) - 1)

\* float(x) of a cell: [kind |-> "num", v |-> tenths] | [kind |-> "nan"] | [kind |-> "inf"]
\* | [kind |-> "error"] (ValueError).  The literal is an optional sign, digits and an
\* optional fraction, read to one fractional digit; the cells of the model hold no
\* exponent and no longer fraction.
py_float(x) ==
    IF x.na THEN [kind |-> "nan", v |-> 0]
    ELSE
    LET t == str_strip(x.text)
        neg == t # <<>> /\ Head(t) = "-"
        body == IF t # <<>> /\ Head(t) \in {"-", "+"} THEN Tail(t) ELSE t
        dots == {i \in DOMAIN body : body[i] = "."}
        dot == IF dots = {} THEN Len(body) + 1 ELSE CHOOSE i \in dots : TRUE
        ip == SubSeq(body, 1, dot - 1)
        fp == SubSeq(body, dot + 1, Len(body))
        mag == 10 * DigitsVal(ip) + (IF fp = <<>> THEN 0 ELSE PosIn(fp[1], Digits) - 1)
    IN  IF str_casefold(body) = <<"n","a","n">> THEN [kind |-> "nan", v |-> 0]
        ELSE IF str_casefold(body) \in {<<"i","n","f">>, <<"i","n","f","i","n","i","t","y">>} THEN [kind |-> "inf", v |-> 0]
        ELSE IF /\ Cardinality(dots) <= 1
                /\ IsDigits(ip) /\ IsDigits(fp)
                /\ ip \o fp # <<>>
             THEN [kind |-> "num", v |-> IF neg THEN 0 - mag ELSE mag]
             ELSE [kind |-> "error", v |-> 0]

py_int_lenient(f) ==
    [ok |-> TRUE,
     v |-> IF f.kind # "num" THEN 0
           ELSE IF f.v >= 0 THEN f.v \div 10 ELSE 0 - ((0 - f.v) \div 10)]

\* int(f): truncation towards zero; ValueError on nan, OverflowError on inf
py_int(f) ==
    IF f.kind = "num"
    THEN [ok |-> TRUE, v |-> IF f.v >= 0 THEN f.v \div 10 ELSE 0 - ((0 - f.v) \div 10)]
    ELSE [ok |-> FALSE, v |-> 0]

\* int(float(x)) as the try block of translate_and_split uses it
py_int_float(x) == py_int(py_float(x))

\* pd.to_numeric(col, errors="coerce") of one cell: a number in tenths, or NaN.  (No
\* catalog cell of the model is an infinite literal, which to_numeric would keep.)
to_numeric(x) ==
    LET f == py_float(x)
    IN  IF f.kind = "num" THEN [na |-> FALSE, v |-> f.v] ELSE [na |-> TRUE, v |-> 0]

_norm_str(x) == str_strip(py_str(x))
_norm_key(x) == str_casefold(_norm_str(x))

clamp_swapped(x) == IF x < 100 THEN x ELSE 100

clamp_min_100(x) == IF x < 100 THEN 100 ELSE x

-----------------------------------------------------------------------------
(* The colour tables *)

CUBRO_COLORS_ORDER == <<
    <<"B","l","a","n","c","o">>, <<"N","e","g","r","o">>, <<"T","i","n","t","a">>, <<"S","e","d","a">>, <<"T","i","p","o">>, <<"C","r","e","m","a">>, <<"H","u","m","o">>, <<"Z","a","f","i","r","o">>,
    <<"C","e","l","e","s","t","e">>, <<"P","i","n","o">>, <<"N","o","c","h","e">>, <<"M","a","r","g","a">>, <<"A","r","g","i","l">>, <<"C","u","r","r","y">>, <<"R","o","t","o">>, <<"A","v","e">> >>

ALVIC_COLOR_CODES_ORDER == <<
    <<"L","3","8","0","6">>, <<"L","4","5","9","6">>, <<"L","4","7","0","6">>, <<"L","5","2","6","6">>, <<"L","5","2","7","6">>, <<"L","5","5","5","6">>, <<"L","5","8","6","6">>, <<"L","5","9","0","6">>,
    <<"L","6","7","6","6">>, <<"L","9","1","4","6">>, <<"L","9","1","6","6">>, <<"L","9","5","5","6">>, <<"L","A","0","5","6">>, <<"L","A","0","6","6">>, <<"L","A","0","7","6">>, <<"L","A","0","8","6">> >>

\* a dict is a sequence of <<key, value>> pairs
COLOR_TEXT_MAP == <<
    <<<<"b","l","a","n","c","o">>, <<"B","L","A","N","C","O"," ","S","M">>>>,
    <<<<"n","e","g","r","o">>, <<"N","E","G","R","O"," ","S","M">>>>,
    <<<<"t","i","n","t","a">>, <<"G","R","I","S"," ","P","L","O","M","O"," ","S","M">>>>,
    <<<<"s","e","d","a">>, <<"C","A","S","H","M","E","R","E"," ","S","M">>>>,
    <<<<"t","i","p","o">>, <<"B","A","S","A","L","T","O"," ","S","M">>>>,
    <<<<"c","r","e","m","a">>, <<"M","A","G","N","O","L","I","A"," ","S","M">>>>,
    <<<<"h","u","m","o">>, <<"G","R","I","S"," ","N","U","B","E"," ","S","M">>>>,
    <<<<"z","a","f","i","r","o">>, <<"A","Z","U","L"," ","Í","N","D","I","G","O"," ","S","M">>>>,
    <<<<"c","e","l","e","s","t","e">>, <<"A","G","U","A"," ","M","A","R","I","N","A"," ","S","M">>>>,
    <<<<"p","i","n","o">>, <<"V","E","R","D","E"," ","S","A","L","V","I","A"," ","S","M">>>>,
    <<<<"n","o","c","h","e">>, <<"A","Z","U","L"," ","M","A","R","I","N","O"," ","S","M">>>>,
    <<<<"m","a","r","g","a">>, <<"C","O","T","T","O"," ","S","M">>>>,
    <<<<"a","r","g","i","l">>, <<"A","L","M","A","G","R","A"," ","S","M">>>>,
    <<<<"c","u","r","r","y">>, <<"C","A","M","E","L"," ","S","M">>>>,
    <<<<"r","o","t","o">>, <<"A","R","E","N","A"," ","S","M">>>>,
    <<<<"a","v","e">>, <<"T","O","R","T","O","R","A"," ","S","M">>>> >>

\* zip() stops at the shorter list
COLOR_CODE_MAP ==
    LET n == IF Len(CUBRO_COLORS_ORDER) < Len(ALVIC_COLOR_CODES_ORDER)
             THEN Len(CUBRO_COLORS_ORDER) ELSE Len(ALVIC_COLOR_CODES_ORDER)
    IN  [i \in 1..n |-> <<str_casefold(CUBRO_COLORS_ORDER[i]), ALVIC_COLOR_CODES_ORDER[i]>>]

\* Optional[str]
None == [none |-> TRUE, text |-> <<>>]
Some(t) == [none |-> FALSE, text |-> t]
\* the truth value of an Optional[str]: None and "" are false
Truthy(o) == ~o.none /\ o.text # <<>>
\* o or ""
OrEmpty(o) == IF Truthy(o) THEN o.text ELSE <<>>

dict_get(d, k) ==
    IF \E i \in DOMAIN d : d[i][1] = k
    THEN Some(d[CHOOSE i \in DOMAIN d : d[i][1] = k][2])
    ELSE None

map_color_cubro_to_alvic_text(cubro_color) == dict_get(COLOR_TEXT_MAP, _norm_key(Cell(cubro_color)))
map_color_cubro_to_alvic_code(cubro_color) == dict_get(COLOR_CODE_MAP, _norm_key(Cell(cubro_color)))

-----------------------------------------------------------------------------
(* load_alvic_db *)

\* A catalog file row: the cells Modelo, Color, Alto, Ancho, ARTICULO.  (Grueso is
\* only coerced and never read; it is left out.)
CsvRow(modelo, color, alto, ancho, articulo) ==
    [Modelo |-> modelo, Color |-> color, Alto |-> alto, Ancho |-> ancho, ARTICULO |-> articulo]

\* Series.astype(str) of one cell.  Up to pandas 2 a NaN becomes the text "nan";
\* from pandas 3 (string dtype) it stays missing.  keeps_na names the build.
astype_str(x, keeps_na) == IF x.na THEN (IF keeps_na THEN NA ELSE Cell(<<"n","a","n">>)) ELSE x

\* .str.upper().str.strip() of one cell
str_upper_strip(x) == IF x.na THEN NA ELSE Cell(str_strip(str_upper(x.text)))

\* .str.contains(pat, na=False) of one cell
series_contains(x, pat) == IF x.na THEN FALSE ELSE str_contains(pat, x.text)

\* the frame after the normalisation of lines 209-218, one record per file row;
\* idx is the row's index label
normalised(csv, keeps_na) ==
    [i \in DOMAIN csv |->
        [idx |-> i,
         Modelo |-> str_upper_strip(astype_str(csv[i].Modelo, keeps_na)),
         Color_raw |-> str_upper_strip(astype_str(csv[i].Color, keeps_na)),
         Alto |-> to_numeric(csv[i].Alto),
         Ancho |-> to_numeric(csv[i].Ancho),
         ARTICULO |-> csv[i].ARTICULO]]

\* dropna(subset=["ARTICULO", "Color_raw", "Alto", "Ancho"]) keeps the row
dropna_keeps(r) == ~r.ARTICULO.na /\ ~r.Color_raw.na /\ ~r.Alto.na /\ ~r.Ancho.na

\* the "Solo 06 ZENIT" mask
is_zenit_06(r) == series_contains(r.Modelo, <<"Z","E","N","I","T">>) /\ series_contains(r.Modelo, <<"0","6">>)

\* a retained catalog entry: texts and numbers (tenths of a millimetre)
Entry(r) ==
    [idx |-> r.idx, Modelo |-> r.Modelo.text, Color_raw |-> r.Color_raw.text,
     Alto |-> r.Alto.v, Ancho |-> r.Ancho.v, ARTICULO |-> r.ARTICULO.text]

load_alvic_db(csv, keeps_na) ==
    LET n == normalised(csv, keeps_na)
        kept == SelectSeq(n, LAMBDA r : dropna_keeps(r) /\ is_zenit_06(r))
    IN  [i \in DOMAIN kept |-> Entry(kept[i])]

-----------------------------------------------------------------------------
(* Classifier *)

\* a row is a function from the table's column names to cells
detect_is_lac(row) ==
    LET candidates == {_norm_str(row[col]) : col \in {<<"G","a","m","a">>, <<"M","a","t","e","r","i","a","l">>} \cap DOMAIN row}
    IN  \E c \in candidates : str_contains(<<"L","A","C">>, str_upper(c))

MecCol == <<"M","e","c","a","n","i","z","a","d","o"," ","o"," ","s","i","n"," ","m","e","c","a","n","i","z","a","r"," ","(","v","a","c","í","o",")">>

detect_is_machined(row) ==
    IF MecCol \notin DOMAIN row THEN FALSE
    ELSE LET val == _norm_str(row[MecCol])
         IN  val # <<>> /\ str_casefold(val) \notin {<<"n","a","n">>, <<"n","o","n","e">>, <<"n","u","l","l">>}

-----------------------------------------------------------------------------
(* Colour filter and size matcher *)

filter_db_by_color_text_first(d, color_text, color_code) ==
    LET d_code == SelectSeq(d, LAMBDA e : Truthy(color_code) /\ e.Color_raw = str_upper(color_code.text))
        d_text == SelectSeq(d, LAMBDA e : Truthy(color_text) /\ e.Color_raw = str_upper(color_text.text))
    IN  IF Truthy(color_text) /\ d_text # <<>> THEN [db |-> d_text, mode |-> "TEXT"]
        ELSE IF Truthy(color_code) /\ d_code # <<>> THEN [db |-> d_code, mode |-> "CODE"]
        ELSE [db |-> d, mode |-> "FALLBACK_NO_COLOR_FILTER"]

_filter_db_by_color(d, color_text, color_code) ==
    LET d_code == SelectSeq(d, LAMBDA e : Truthy(color_code) /\ e.Color_raw = str_upper(color_code.text))
        d_text == SelectSeq(d, LAMBDA e : Truthy(color_text) /\ e.Color_raw = str_upper(color_text.text))
    IN  IF Truthy(color_code) /\ d_code # <<>> THEN [db |-> d_code, mode |-> "CODE"]
        ELSE IF Truthy(color_text) /\ d_text # <<>> THEN [db |-> d_text, mode |-> "TEXT"]
        ELSE [db |-> d, mode |-> "FALLBACK_NO_COLOR_FILTER"]

\* the "area" column
area(e) == e.Alto * e.Ancho

\* row a sorts before row b under sort_values(["area", "Alto", "Ancho"])
sort_key_less(a, b) ==
    \/ area(a) < area(b)
    \/ area(a) = area(b) /\ a.Alto < b.Alto
    \/ area(a) = area(b) /\ a.Alto = b.Alto /\ a.Ancho < b.Ancho

\* sort_values on several keys: rows with equal keys keep their order
RECURSIVE insert_sorted(_, _)
insert_sorted(e, s) ==
    IF s = <<>> THEN <<e>>
    ELSE IF sort_key_less(e, Head(s)) THEN <<e>> \o s
    ELSE <<Head(s)>> \o insert_sorted(e, Tail(s))

RECURSIVE sort_values(_)
sort_values(s) ==
    IF s = <<>> THEN <<>>
    ELSE insert_sorted(s[Len(s)], sort_values(SubSeq(s, 1, Len(s) - 1)))

NoEntry == [idx |-> 0, Modelo |-> <<>>, Color_raw |-> <<>>, Alto |-> 0, Ancho |-> 0, ARTICULO |-> <<>>]
Found(e, tag) == [found |-> TRUE, row |-> e, match_type |-> tag]
NotFound == [found |-> FALSE, row |-> NoEntry, match_type |-> "NO_MATCH"]

\* w and h are whole millimetres, the catalog's Alto and Ancho tenths
find_best_match_fit_first(d, w, h) ==
    LET exact == SelectSeq(d, LAMBDA e : e.Alto = 10 * h /\ e.Ancho = 10 * w)
        rexact == SelectSeq(d, LAMBDA e : e.Alto = 10 * w /\ e.Ancho = 10 * h)
        fit == SelectSeq(d, LAMBDA e : e.Alto >= 10 * h /\ e.Ancho >= 10 * w)
        rfit == SelectSeq(d, LAMBDA e : e.Alto >= 10 * w /\ e.Ancho >= 10 * h)
    IN  IF fit # <<>> THEN Found(sort_values(fit)[1], "FIT")
        ELSE IF rfit # <<>> THEN Found(sort_values(rfit)[1], "ROTATED_FIT")
        ELSE IF exact # <<>> THEN Found(exact[1], "EXACT")
        ELSE IF rexact # <<>> THEN Found(rexact[1], "ROTATED_EXACT")
        ELSE NotFound

find_best_match_unsorted(d, w, h) ==
    LET exact == SelectSeq(d, LAMBDA e : e.Alto = 10 * h /\ e.Ancho = 10 * w)
        rexact == SelectSeq(d, LAMBDA e : e.Alto = 10 * w /\ e.Ancho = 10 * h)
        fit == SelectSeq(d, LAMBDA e : e.Alto >= 10 * h /\ e.Ancho >= 10 * w)
        rfit == SelectSeq(d, LAMBDA e : e.Alto >= 10 * w /\ e.Ancho >= 10 * h)
    IN  IF exact # <<>> THEN Found(exact[1], "EXACT")
        ELSE IF rexact # <<>> THEN Found(rexact[1], "ROTATED_EXACT")
        ELSE IF fit # <<>> THEN Found(fit[1], "FIT")
        ELSE IF rfit # <<>> THEN Found(rfit[1], "ROTATED_FIT")
        ELSE NotFound

find_best_match(d, w, h) ==
    LET exact == SelectSeq(d, LAMBDA e : e.Alto = 10 * h /\ e.Ancho = 10 * w)
        rexact == SelectSeq(d, LAMBDA e : e.Alto = 10 * w /\ e.Ancho = 10 * h)
        fit == SelectSeq(d, LAMBDA e : e.Alto >= 10 * h /\ e.Ancho >= 10 * w)
        rfit == SelectSeq(d, LAMBDA e : e.Alto >= 10 * w /\ e.Ancho >= 10 * h)
    IN  IF exact # <<>> THEN Found(exact[1], "EXACT")
        ELSE IF rexact # <<>> THEN Found(rexact[1], "ROTATED_EXACT")
        ELSE IF fit # <<>> THEN Found(sort_values(fit)[1], "FIT")
        ELSE IF rfit # <<>> THEN Found(sort_values(rfit)[1], "ROTATED_FIT")
        ELSE NotFound

-----------------------------------------------------------------------------
(* Input normaliser *)

EXPECTED_COLS == <<
    <<"I","D"," ","d","e"," ","P","r","o","y","e","c","t","o">>, <<"S","K","U">>, <<"I","D"," ","d","e"," ","p","i","e","z","a">>, <<"T","i","p","o","l","o","g","í","a"," ","d","e"," ","p","i","e","z","a">>, <<"A","n","c","h","o">>, <<"A","l","t","o">>,
    <<"M","a","t","e","r","i","a","l">>, <<"G","a","m","a">>, <<"A","c","a","b","a","d","o">>, <<"M","e","c","a","n","i","z","a","d","o"," ","o"," ","s","i","n"," ","m","e","c","a","n","i","z","a","r"," ","(","v","a","c","í","o",")">>,
    <<"M","o","d","e","l","o"," ","d","e"," ","t","i","r","a","d","o","r">>, <<"P","o","s","i","c","i","ó","n"," ","d","e"," ","t","i","r","a","d","o","r">>, <<"D","i","r","e","c","c","i","ó","n"," ","d","e"," ","a","p","e","r","t","u","r","a"," ","d","e"," ","p","u","e","r","t","a">>,
    <<"A","c","a","b","a","d","o"," ","d","e"," ","t","i","r","a","d","o","r">> >>

_canonicalize(col) == str_casefold(str_join(str_split(str_strip(col), <<>>)))

\* <<target, keys, the name the if/elif chain gives the target>>, in the dict's order
synonyms == <<
    <<<<"a","n","c","h","o">>, <<<<"a","n","c","h","o">>, <<"w","i","d","t","h">>, <<"w">>, <<"a","n","c","h","u","r","a">>>>, <<"A","n","c","h","o">>>>,
    <<<<"a","l","t","o">>, <<<<"a","l","t","o">>, <<"h","e","i","g","h","t">>, <<"h">>, <<"a","l","t","u","r","a">>>>, <<"A","l","t","o">>>>,
    <<<<"a","c","a","b","a","d","o">>, <<<<"a","c","a","b","a","d","o">>, <<"c","o","l","o","r">>, <<"a","c","a","b","a","d","o"," ","c","o","l","o","r">>, <<"f","i","n","i","s","h">>, <<"a","c","a","b","o">>>>, <<"A","c","a","b","a","d","o">>>>,
    <<<<"m","a","t","e","r","i","a","l">>, <<<<"m","a","t","e","r","i","a","l">>, <<"m","a","t">>, <<"m","a","t","e","r","i","a","l","e","s">>>>, <<"M","a","t","e","r","i","a","l">>>>,
    <<<<"g","a","m","a">>, <<<<"g","a","m","a">>, <<"s","e","r","i","e">>, <<"r","a","n","g","e">>>>, <<"G","a","m","a">>>>,
    <<<<"m","e","c","a","n","i","z","a","d","o"," ","o"," ","s","i","n"," ","m","e","c","a","n","i","z","a","r"," ","(","v","a","c","í","o",")">>,
      <<<<"m","e","c","a","n","i","z","a","d","o"," ","o"," ","s","i","n"," ","m","e","c","a","n","i","z","a","r"," ","(","v","a","c","í","o",")">>, <<"m","e","c","a","n","i","z","a","d","o"," ","o"," ","s","i","n"," ","m","e","c","a","n","i","z","a","r">>, <<"m","e","c","a","n","i","z","a","d","o">>,
        <<"c","n","c">>, <<"m","e","c","a","n","i","z","a","d","a">>, <<"m","e","c","a","n","i","z","a","d","o","/","s","i","n"," ","m","e","c","a","n","i","z","a","r">>>>,
      <<"M","e","c","a","n","i","z","a","d","o"," ","o"," ","s","i","n"," ","m","e","c","a","n","i","z","a","r"," ","(","v","a","c","í","o",")">>>> >>

\* keys_canon of each target
keys_canon == [t \in DOMAIN synonyms |-> {_canonicalize(synonyms[t][2][k]) : k \in DOMAIN synonyms[t][2]}]

\* the targets whose key set holds the column: rename_dict[col] is set once for each,
\* the last assignment stays
targets_of(col) ==
    LET c == _canonicalize(col) IN {t \in DOMAIN synonyms : c \in keys_canon[t]}

Max(S) == CHOOSE x \in S : \A y \in S : y <= x

\* the column names of the returned frame, in order
_rename_columns_with_synonyms(cols) ==
    [i \in DOMAIN cols |->
        IF targets_of(cols[i]) # {}
        THEN synonyms[Max(targets_of(cols[i]))][3]
        ELSE str_strip(cols[i])]

Range(s) == {s[i] : i \in DOMAIN s}
HasDuplicates(s) == \E i, j \in DOMAIN s : i < j /\ s[i] = s[j]

LoadCritical == {<<"A","n","c","h","o">>, <<"A","l","t","o">>, <<"A","c","a","b","a","d","o">>}

\* load_input_csv on a file whose first line is `header`: the returned frame's
\* columns, and whether the file was re-read without a header (the first line is
\* then the first data row)
load_input_csv(header) ==
    LET cols == _rename_columns_with_synonyms(header)
    IN  IF LoadCritical \subseteq Range(cols)
        THEN [ok |-> TRUE, cols |-> cols, headerless |-> FALSE]
        ELSE IF Len(header) >= Len(EXPECTED_COLS)
        THEN [ok |-> TRUE, cols |-> _rename_columns_with_synonyms(EXPECTED_COLS),
              headerless |-> TRUE]
        ELSE [ok |-> FALSE, cols |-> cols, headerless |-> FALSE]

\* read_csv's cell for a field: an empty field is NaN
Field(t) == IF t = <<>> THEN NA ELSE Cell(t)

\* the first line of a file re-read without a header, as a data row
first_line_row(header) ==
    [c \in Range(EXPECTED_COLS) |->
        Field(header[CHOOSE i \in DOMAIN EXPECTED_COLS : EXPECTED_COLS[i] = c])]

-----------------------------------------------------------------------------
(* translate_and_split: the loop body *)

\* a computed field that is "" or an int
Blank == [blank |-> TRUE, v |-> 0]
Num(n) == [blank |-> FALSE, v |-> n]

OutRow(base, codigo, ctext, ccode, mtype, mode, w, h, dbw, dbh, lac, mach) ==
    [base |-> base, Codigo_ALVIC |-> codigo, Color_ALVIC_text |-> ctext,
     Color_ALVIC_code |-> ccode, Match_type |-> mtype, Color_filter_mode |-> mode,
     Input_Ancho_norm |-> w, Input_Alto_norm |-> h, DB_Ancho |-> dbw, DB_Alto |-> dbh,
     Es_LAC |-> lac, Es_Mecanizada |-> mach]

\* row.get(acabado_col, "")
row_get(row, col) == IF col \in DOMAIN row THEN row[col] ELSE Cell(<<>>)

color_text_of_row(row) == map_color_cubro_to_alvic_text(_norm_str(row_get(row, <<"A","c","a","b","a","d","o">>)))
color_code_of_row(row) == map_color_cubro_to_alvic_code(_norm_str(row_get(row, <<"A","c","a","b","a","d","o">>)))

\* the locals of one iteration
Locals(row) ==
    LET cubro_color == _norm_str(row_get(row, <<"A","c","a","b","a","d","o">>))
        w_raw == py_int_float(row[<<"A","n","c","h","o">>])
        h_raw == py_int_float(row[<<"A","l","t","o">>])
    IN  [is_lac |-> detect_is_lac(row),
         is_machined |-> detect_is_machined(row),
         color_text |-> map_color_cubro_to_alvic_text(cubro_color),
         color_code |-> map_color_cubro_to_alvic_code(cubro_color),
         \* the try block: both conversions succeed
         dims_ok |-> w_raw.ok /\ h_raw.ok,
         w |-> clamp_min_100(w_raw.v),
         h |-> clamp_min_100(h_raw.v)]

out_not_lac(row, v) ==
    OutRow(row, <<>>, <<>>, <<>>, "", "", Blank, Blank, Blank, Blank, FALSE, v.is_machined)

out_bad_dims(row, v) ==
    OutRow(row, <<>>, OrEmpty(v.color_text), OrEmpty(v.color_code),
           "BAD_DIMS", "", Blank, Blank, Blank, Blank, TRUE, v.is_machined)

out_unknown_color(row, v) ==
    OutRow(row, <<>>, <<>>, <<>>, "UNKNOWN_COLOR", "", Num(v.w), Num(v.h),
           Blank, Blank, TRUE, v.is_machined)

\* out_matched with the entry's height recorded as DB_Ancho and its width as DB_Alto
out_matched_dims_swapped(row, v, d) ==
    LET f == _filter_db_by_color(d, v.color_text, v.color_code)
        m == find_best_match(f.db, v.w, v.h)
    IN  IF ~m.found
        THEN OutRow(row, <<>>, OrEmpty(v.color_text), OrEmpty(v.color_code),
                    "NO_MATCH", f.mode, Num(v.w), Num(v.h), Blank, Blank,
                    TRUE, v.is_machined)
        ELSE OutRow(row, m.row.ARTICULO, OrEmpty(v.color_text), OrEmpty(v.color_code),
                    m.match_type, f.mode, Num(v.w), Num(v.h),
                    Num(py_int([kind |-> "num", v |-> m.row.Alto]).v),
                    Num(py_int([kind |-> "num", v |-> m.row.Ancho]).v),
                    TRUE, v.is_machined)

out_matched(row, v, d) ==
    LET f == _filter_db_by_color(d, v.color_text, v.color_code)
        m == find_best_match(f.db, v.w, v.h)
    IN  IF ~m.found
        THEN OutRow(row, <<>>, OrEmpty(v.color_text), OrEmpty(v.color_code),
                    "NO_MATCH", f.mode, Num(v.w), Num(v.h), Blank, Blank,
                    TRUE, v.is_machined)
        ELSE OutRow(row, m.row.ARTICULO, OrEmpty(v.color_text), OrEmpty(v.color_code),
                    m.match_type, f.mode, Num(v.w), Num(v.h),
                    Num(py_int([kind |-> "num", v |-> m.row.Ancho]).v),
                    Num(py_int([kind |-> "num", v |-> m.row.Alto]).v),
                    TRUE, v.is_machined)

translate_row_color_first(row, d) ==
    LET v == Locals(row)
    IN  IF ~v.is_lac THEN out_not_lac(row, v)
        ELSE IF ~(Truthy(v.color_text) \/ Truthy(v.color_code))
        THEN OutRow(row, <<>>, <<>>, <<>>, "UNKNOWN_COLOR", "", Blank, Blank,
                    Blank, Blank, TRUE, v.is_machined)
        ELSE IF ~v.dims_ok THEN out_bad_dims(row, v)
        ELSE out_matched(row, v, d)

translate_row_dims_first(row, d) ==
    LET v == Locals(row)
    IN  IF ~v.dims_ok THEN out_bad_dims(row, v)
        ELSE IF ~v.is_lac THEN out_not_lac(row, v)
        ELSE IF ~(Truthy(v.color_text) \/ Truthy(v.color_code)) THEN out_unknown_color(row, v)
        ELSE out_matched(row, v, d)

\* one iteration of the for loop: the dict appended to out_rows
translate_row(row, d) ==
    LET v == Locals(row)
    IN  IF ~v.is_lac THEN out_not_lac(row, v)
        ELSE IF ~v.dims_ok THEN out_bad_dims(row, v)
        ELSE IF ~(Truthy(v.color_text) \/ Truthy(v.color_code)) THEN out_unknown_color(row, v)
        ELSE out_matched(row, v, d)

-----------------------------------------------------------------------------
(* Input domains *)

\* the elements of pool at the indices in S, in the pool's order
RECURSIVE PickSeq(_, _, _)
PickSeq(pool, S, i) ==
    IF i > Len(pool) THEN <<>>
    ELSE (IF i \in S THEN <<pool[i]>> ELSE <<>>) \o PickSeq(pool, S, i + 1)

SubSeqsOf(pool, n) ==
    {PickSeq(pool, S, 1) : S \in {X \in SUBSET DOMAIN pool : Cardinality(X) <= n}}

SeqsUpTo(S, n) == UNION {[1..k -> S] : k \in 0..n}

\* catalog files of a whole run
BatchCsvPool == <<
    CsvRow(Cell(<<"Z","E","N","I","T"," ","0","6">>), Cell(<<"L","3","8","0","6">>), Cell(<<"2","5","0">>), Cell(<<"1","0","0">>), Cell(<<"X","1">>)),
    CsvRow(Cell(<<"z","e","n","i","t"," ","0","6"," ","s","m">>), Cell(<<" ","b","l","a","n","c","o"," ","s","m">>), Cell(<<"1","0","0">>), Cell(<<"2","5","0">>), Cell(<<"X","2">>)),
    CsvRow(Cell(<<"Z","E","N","I","T"," ","0","6">>), Cell(<<"N","E","G","R","O"," ","S","M">>), Cell(<<"3","0","0">>), Cell(<<"3","0","0">>), Cell(<<"X","3">>)) >>

\* catalog files of a one-row run
RowCsvPool == <<
    CsvRow(Cell(<<"Z","E","N","I","T"," ","0","6">>), Cell(<<"L","3","8","0","6">>), Cell(<<"2","5","0">>), Cell(<<"1","0","0">>), Cell(<<"X","1">>)),
    CsvRow(Cell(<<"z","e","n","i","t"," ","0","6"," ","s","m">>), Cell(<<" ","b","l","a","n","c","o"," ","s","m">>), Cell(<<"1","0","0">>), Cell(<<"2","5","0">>), Cell(<<"X","2">>)),
    CsvRow(Cell(<<"Z","E","N","I","T"," ","0","6">>), Cell(<<"N","E","G","R","O"," ","S","M">>), Cell(<<"3","0","0",".","5">>), Cell(<<"2","0","0">>), Cell(<<"X","3">>)),
    CsvRow(Cell(<<"Z","E","N","I","T"," ","0","6">>), Cell(<<"B","L","A","N","C","O"," ","S","M">>), Cell(<<"2","5","0">>), Cell(<<"1","0","0">>), Cell(<<"X","4">>)),
    CsvRow(Cell(<<"Z","E","N","I","T"," ","0","6">>), NA, Cell(<<"4","0","0">>), Cell(<<"4","0","0">>), Cell(<<"X","5">>)),
    CsvRow(Cell(<<"Z","E","N","I","T"," ","0","6">>), Cell(<<"N","E","G","R","O"," ","S","M">>), Cell(<<"2","5","0">>), Cell(<<"2","5","0">>), NA) >>

\* first lines of input files.  None yields two columns of the same name after
\* renaming: a row is a function of its column names.
H_full == <<<<"A","n","c","h","o">>, <<"A","l","t","o">>, <<"A","c","a","b","a","d","o">>, <<"G","a","m","a">>, <<"M","a","t","e","r","i","a","l">>,
            <<"M","e","c","a","n","i","z","a","d","o"," ","o"," ","s","i","n"," ","m","e","c","a","n","i","z","a","r"," ","(","v","a","c","í","o",")">>>>
H_synonyms == <<<<" ","w","i","d","t","h">>, <<"H","E","I","G","H","T">>, <<"A","c","a","b","a","d","o"," "," ","C","o","l","o","r">>, <<"S","e","r","i","e"," ">>>>
H_short == <<<<"S","K","U">>, <<"A","n","c","h","o">>>>
H_headerless == <<<<"P","1">>, <<"S","1">>, <<"1">>, <<"P","u","e","r","t","a">>, <<"8","0">>, <<"2","5","0">>, <<"M","D","F">>, <<"L","A","C">>, <<"B","l","a","n","c","o">>,
                  <<>>, <<"T","1">>, <<"i","z","q">>, <<"d","e","r">>, <<"i","n","o","x">>>>
Headers == {H_full, H_synonyms, H_short, H_headerless}

\* the cells a row may hold, by column
BatchCells ==
    [Ancho |-> {Cell(<<"8","0">>), Cell(<<"a","b","c">>), NA},
     Alto |-> {Cell(<<"2","5","0">>)},
     Acabado |-> {Cell(<<"B","l","a","n","c","o">>)},
     Gama |-> {Cell(<<"L","A","C"," ","B","l","a","n","c","o">>), Cell(<<"M","a","t","e">>)},
     Material |-> {Cell(<<"M","D","F">>)},
     Mec |-> {NA, Cell(<<"C","N","C">>)}]

RowCells ==
    [Ancho |-> {Cell(<<"8","0">>), Cell(<<"2","5","0">>), Cell(<<" ","1","0","0",".","9"," ">>), Cell(<<"a","b","c">>), NA},
     Alto |-> {Cell(<<"2","5","0">>), Cell(<<"9","9",".","5">>), Cell(<<"-","0",".","5">>), Cell(<<"i","n","f">>)},
     Acabado |-> {Cell(<<"B","l","a","n","c","o">>), Cell(<<" ","N","E","G","R","O"," ">>), Cell(<<"M","o","r","a","d","o">>), NA},
     Gama |-> {Cell(<<"L","A","C"," ","B","l","a","n","c","o">>), Cell(<<"l","a","c","a","d","o">>), Cell(<<"M","a","t","e">>)},
     Material |-> {Cell(<<"M","D","F">>), Cell(<<"m","d","f"," ","L","a","c">>)},
     Mec |-> {NA, Cell(<<"C","N","C">>)}]

RowOf(cols, a, b, c, g, m, k) ==
    [col \in cols |->
        CASE col = <<"A","n","c","h","o">> -> a
          [] col = <<"A","l","t","o">> -> b
          [] col = <<"A","c","a","b","a","d","o">> -> c
          [] col = <<"G","a","m","a">> -> g
          [] col = <<"M","a","t","e","r","i","a","l">> -> m
          [] col = MecCol -> k
          [] OTHER -> Cell(<<"x">>)]

RowsOver(cols, cells) ==
    {RowOf(cols, a, b, c, g, m, k) :
        a \in cells.Ancho, b \in cells.Alto, c \in cells.Acabado,
        g \in cells.Gama, m \in cells.Material, k \in cells.Mec}

-----------------------------------------------------------------------------
(* translate_and_split *)

Idle ==
    /\ m_db = <<>> /\ m_w = 0 /\ m_h = 0 /\ m_pc = "idle" /\ m_res = NotFound
    /\ l_csv = <<>> /\ l_env = [db_exists |-> FALSE, keeps_na |-> FALSE]
    /\ l_pc = "idle" /\ l_db = <<>>
    /\ r_cols = <<>> /\ r_pc = "idle" /\ r_out = <<>>

PipeIdle ==
    /\ pc = "idle" /\ db = <<>> /\ inp = <<>> /\ out_rows = <<>>
    /\ env = [db_exists |-> FALSE, keeps_na |-> FALSE, csv |-> <<>>, header |-> <<>>]
    /\ machined = <<>> /\ non_machined = <<>> /\ err = ""

InitPipe(pool) ==
    /\ pc = "start"
    /\ env \in [db_exists : BOOLEAN, keeps_na : BOOLEAN,
                csv : SubSeqsOf(pool, MaxCsvRows), header : Headers]
    /\ db = <<>> /\ inp = <<>> /\ out_rows = <<>>
    /\ machined = <<>> /\ non_machined = <<>> /\ err = ""

Init == InitPipe(BatchCsvPool) /\ Idle
InitOneRow == InitPipe(RowCsvPool) /\ Idle

Raise(e) ==
    /\ pc' = "raised" /\ err' = e
    /\ UNCHANGED <<env, db, inp, out_rows, machined, non_machined>>

\* load_input_csv's result and the rows a frame may hold, by first line
LoadedInput == [h \in Headers |-> load_input_csv(h)]
BatchRows == [h \in Headers |-> RowsOver(Range(LoadedInput[h].cols), BatchCells)]
OneRowRows == [h \in Headers |-> RowsOver(Range(LoadedInput[h].cols), RowCells)]

\* lines 333-345: the catalog, the input frame, the required columns
Load ==
    /\ pc = "start"
    /\ IF ~env.db_exists THEN Raise("FileNotFoundError")
       ELSE IF ~LoadedInput[env.header].ok THEN Raise("ValueError")
       ELSE IF ~(LoadCritical \subseteq Range(LoadedInput[env.header].cols))
       THEN Raise("ValueError")
       ELSE /\ pc' = "loop"
            /\ db' = load_alvic_db(env.csv, env.keeps_na)
            /\ UNCHANGED <<env, inp, out_rows, machined, non_machined, err>>
    /\ UNCHANGED <<match_vars, load_vars, rename_vars>>

FirstLineIsData == LoadedInput[env.header].headerless

\* lines 349-448: the next row of inp
Iterate(rows, max) ==
    /\ pc = "loop"
    /\ Len(inp) < max
    /\ \E row \in (IF FirstLineIsData /\ inp = <<>>
                   THEN {first_line_row(env.header)}
                   ELSE rows[env.header]) :
          /\ inp' = Append(inp, row)
          /\ out_rows' = Append(out_rows, translate_row(row, db))
    /\ UNCHANGED <<pc, env, db, machined, non_machined, err>>
    /\ UNCHANGED <<match_vars, load_vars, rename_vars>>

ProcessRow == Iterate(BatchRows, MaxRecords)
ProcessOneRow == Iterate(OneRowRows, 1)

\* pd.DataFrame(out_rows): the rows under a RangeIndex
frame(rows) == [i \in DOMAIN rows |-> [idx |-> i - 1, rec |-> rows[i]]]

\* lines 450-458: inp is exhausted.  pd.DataFrame([]) has no columns, and
\* out["Es_Mecanizada"] raises KeyError
Split ==
    /\ pc = "loop"
    /\ ~(FirstLineIsData /\ inp = <<>>)
    /\ IF out_rows = <<>> THEN Raise("KeyError")
       ELSE /\ machined' = SelectSeq(frame(out_rows), LAMBDA r : r.rec.Es_Mecanizada = TRUE)
            /\ non_machined' = SelectSeq(frame(out_rows), LAMBDA r : r.rec.Es_Mecanizada = FALSE)
            /\ pc' = "done"
            /\ UNCHANGED <<env, db, inp, out_rows, err>>
    /\ UNCHANGED <<match_vars, load_vars, rename_vars>>

Next == Load \/ ProcessRow \/ Split
Spec == Init /\ [][Next]_vars

NextOneRow == Load \/ ProcessOneRow \/ Split
SpecOneRow == InitOneRow /\ [][NextOneRow]_vars

-----------------------------------------------------------------------------
(* find_best_match on its own: every catalog subset of up to MaxDb entries *)

\* Alto and Ancho of the entries, in tenths of a millimetre
MatchDims == {1000, 2000, 4000}
\* w and h of the query, in millimetres
QueryDims == {100, 200, 400}

MatchEntry(i, alto, ancho) ==
    [idx |-> i, Modelo |-> <<"Z","E","N","I","T"," ","0","6">>, Color_raw |-> <<"B","L","A","N","C","O"," ","S","M">>,
     Alto |-> alto, Ancho |-> ancho, ARTICULO |-> <<"X", Digits[i + 1]>>]

InitMatch ==
    /\ \E dims \in SeqsUpTo(MatchDims \X MatchDims, MaxDb) :
          m_db = [i \in DOMAIN dims |-> MatchEntry(i, dims[i][1], dims[i][2])]
    /\ m_w \in QueryDims /\ m_h \in QueryDims
    /\ m_pc = "ready" /\ m_res = NotFound
    /\ PipeIdle
    /\ l_csv = <<>> /\ l_env = [db_exists |-> FALSE, keeps_na |-> FALSE]
    /\ l_pc = "idle" /\ l_db = <<>>
    /\ r_cols = <<>> /\ r_pc = "idle" /\ r_out = <<>>

FindBestMatch ==
    /\ m_pc = "ready"
    /\ m_res' = find_best_match(m_db, m_w, m_h)
    /\ m_pc' = "done"
    /\ UNCHANGED <<m_db, m_w, m_h, pipe_vars, load_vars, rename_vars>>

NextMatch == FindBestMatch
SpecMatch == InitMatch /\ [][NextMatch]_vars

-----------------------------------------------------------------------------
(* load_alvic_db on its own: catalog files of up to MaxCsvRows rows *)

LoadCsvPool == {
    CsvRow(Cell(<<"Z","E","N","I","T"," ","0","6">>), Cell(<<"L","3","8","0","6">>), Cell(<<"2","5","0">>), Cell(<<"1","0","0">>), Cell(<<"X","1">>)),
    CsvRow(Cell(<<" ","Z","e","n","i","t"," ","0","6"," ","s","m">>), Cell(<<" ","b","l","a","n","c","o"," ","s","m"," ">>), Cell(<<"2","5","0",".","5">>), Cell(<<"1","0","0">>), Cell(<<"X","2">>)),
    CsvRow(Cell(<<"Z","E","N","I","T"," ","0","6">>), NA, Cell(<<"2","5","0">>), Cell(<<"1","0","0">>), Cell(<<"X","3">>)),
    CsvRow(Cell(<<"Z","E","N","I","T"," ","0","6">>), Cell(<<"N","E","G","R","O"," ","S","M">>), Cell(<<"2","5","0">>), Cell(<<"1","0","0">>), NA),
    CsvRow(Cell(<<"Z","E","N","I","T"," ","0","6">>), Cell(<<"N","E","G","R","O"," ","S","M">>), NA, Cell(<<"1","0","0">>), Cell(<<"X","5">>)),
    CsvRow(Cell(<<"Z","E","N","I","T"," ","0","6">>), Cell(<<"N","E","G","R","O"," ","S","M">>), Cell(<<"2","5","0">>), Cell(<<"1","0"," ","c","m">>), Cell(<<"X","6">>)),
    CsvRow(Cell(<<"L","U","X","E"," ","0","6">>), Cell(<<"N","E","G","R","O"," ","S","M">>), Cell(<<"2","5","0">>), Cell(<<"1","0","0">>), Cell(<<"X","7">>)),
    CsvRow(Cell(<<"Z","E","N","I","T"," ","0","7">>), Cell(<<"N","E","G","R","O"," ","S","M">>), Cell(<<"2","5","0">>), Cell(<<"1","0","0">>), Cell(<<"X","8">>)),
    CsvRow(NA, Cell(<<"N","E","G","R","O"," ","S","M">>), Cell(<<"2","5","0">>), Cell(<<"1","0","0">>), Cell(<<"X","9">>)) }

InitLoad ==
    /\ l_csv \in SeqsUpTo(LoadCsvPool, MaxCsvRows)
    /\ l_env \in [db_exists : BOOLEAN, keeps_na : BOOLEAN]
    /\ l_pc = "ready" /\ l_db = <<>>
    /\ PipeIdle
    /\ m_db = <<>> /\ m_w = 0 /\ m_h = 0 /\ m_pc = "idle" /\ m_res = NotFound
    /\ r_cols = <<>> /\ r_pc = "idle" /\ r_out = <<>>

LoadAlvicDb ==
    /\ l_pc = "ready"
    /\ IF ~l_env.db_exists
       THEN l_pc' = "raised" /\ l_db' = l_db
       ELSE l_pc' = "done" /\ l_db' = load_alvic_db(l_csv, l_env.keeps_na)
    /\ UNCHANGED <<l_csv, l_env, pipe_vars, match_vars, rename_vars>>

NextLoad == LoadAlvicDb
SpecLoad == InitLoad /\ [][NextLoad]_vars

-----------------------------------------------------------------------------
(* _rename_columns_with_synonyms on its own: headers of up to MaxCols columns *)

\* read_csv hands out distinct column names
ColumnNames == {<<"w","i","d","t","h">>, <<"W">>, <<" ","A","n","c","h","o"," ">>, <<"A","l","t","o">>, <<"a","l","t","u","r","a">>, <<"A","c","a","b","a","d","o"," "," ","C","o","l","o","r">>,
                <<"S","K","U"," ">>, <<"c","n","c">>, <<"G","a","m","a">>}

InitRename ==
    /\ r_cols \in {c \in SeqsUpTo(ColumnNames, MaxCols) : ~HasDuplicates(c)}
    /\ r_pc = "ready" /\ r_out = <<>>
    /\ PipeIdle
    /\ m_db = <<>> /\ m_w = 0 /\ m_h = 0 /\ m_pc = "idle" /\ m_res = NotFound
    /\ l_csv = <<>> /\ l_env = [db_exists |-> FALSE, keeps_na |-> FALSE]
    /\ l_pc = "idle" /\ l_db = <<>>

RenameColumns ==
    /\ r_pc = "ready"
    /\ r_out' = _rename_columns_with_synonyms(r_cols)
    /\ r_pc' = "done"
    /\ UNCHANGED <<r_cols, pipe_vars, match_vars, load_vars>>

NextRename == RenameColumns
SpecRename == InitRename /\ [][NextRename]_vars

-----------------------------------------------------------------------------
(* Claims about find_best_match, under SpecMatch *)

\* the candidates of each strategy, as indices of m_db
ExactCands == {i \in DOMAIN m_db : m_db[i].Alto = 10 * m_h /\ m_db[i].Ancho = 10 * m_w}
RotatedExactCands == {i \in DOMAIN m_db : m_db[i].Alto = 10 * m_w /\ m_db[i].Ancho = 10 * m_h}
FitCands == {i \in DOMAIN m_db : m_db[i].Alto >= 10 * m_h /\ m_db[i].Ancho >= 10 * m_w}
RotatedFitCands == {i \in DOMAIN m_db : m_db[i].Alto >= 10 * m_w /\ m_db[i].Ancho >= 10 * m_h}

CandsOf(tag) ==
    CASE tag = "EXACT" -> ExactCands
      [] tag = "ROTATED_EXACT" -> RotatedExactCands
      [] tag = "FIT" -> FitCands
      [] tag = "ROTATED_FIT" -> RotatedFitCands
      [] OTHER -> {}

FirstStrategy ==
    IF ExactCands # {} THEN "EXACT"
    ELSE IF RotatedExactCands # {} THEN "ROTATED_EXACT"
    ELSE IF FitCands # {} THEN "FIT"
    ELSE IF RotatedFitCands # {} THEN "ROTATED_FIT"
    ELSE "NO_MATCH"

\* C1: find_best_match returns the tag of the first strategy, in the order EXACT,
\* ROTATED_EXACT, FIT, ROTATED_FIT, that has a candidate, with an entry that satisfies
\* that strategy; it returns NO_MATCH and no entry exactly when no strategy has a
\* candidate.
C1_StrategyPriority ==
    m_pc = "done" =>
        /\ m_res.match_type = FirstStrategy
        /\ m_res.found <=> FirstStrategy # "NO_MATCH"
        /\ m_res.found => \E i \in CandsOf(FirstStrategy) : m_res.row = m_db[i]
        /\ ~m_res.found <=>
              ExactCands \cup RotatedExactCands \cup FitCands \cup RotatedFitCands = {}

\* EXACT is returned although another entry is a FIT candidate
C1_Witness ==
    /\ m_pc = "done"
    /\ m_res.match_type = "EXACT"
    /\ FitCands \ ExactCands # {}

\* C2: an entry returned as FIT (ROTATED_FIT) has minimum area among the candidates of
\* that strategy; among those of minimum area the smallest Alto, and among those of
\* equal Alto too the smallest Ancho.
C2_FitTieBreak ==
    (m_pc = "done" /\ m_res.match_type \in {"FIT", "ROTATED_FIT"}) =>
        /\ \E i \in CandsOf(m_res.match_type) : m_res.row = m_db[i]
        /\ \A i \in CandsOf(m_res.match_type) :
              LET c == m_db[i]
                  r == m_res.row
              IN  /\ r.Alto * r.Ancho <= c.Alto * c.Ancho
                  /\ r.Alto * r.Ancho = c.Alto * c.Ancho => r.Alto <= c.Alto
                  /\ (r.Alto * r.Ancho = c.Alto * c.Ancho /\ r.Alto = c.Alto)
                        => r.Ancho <= c.Ancho

\* FIT is returned where an earlier entry of the catalog has the same area and a
\* greater Alto
C2_Witness ==
    /\ m_pc = "done"
    /\ m_res.match_type = "FIT"
    /\ \E i \in FitCands :
          /\ i < m_res.row.idx
          /\ m_db[i].Alto * m_db[i].Ancho = m_res.row.Alto * m_res.row.Ancho
          /\ m_db[i].Alto > m_res.row.Alto

-----------------------------------------------------------------------------
(* Claims about a whole run, under Spec *)

LoadFailed == err \in {"FileNotFoundError", "ValueError"}

InPartition(part, i) == \E j \in DOMAIN part : part[j].idx = i - 1

\* C3: for every input table, zero records included, translate_and_split returns two
\* partitions that hold every input record exactly once, the machined records in the
\* machined set and the others in the non-machined set, their lengths adding up to the
\* number of input records.
C3_PartitionComplete ==
    (pc \in {"done", "raised"} /\ ~LoadFailed) =>
        /\ pc = "done"
        /\ Len(machined) + Len(non_machined) = Len(inp)
        /\ \A i \in DOMAIN inp :
              /\ InPartition(machined, i) <=> detect_is_machined(inp[i])
              /\ InPartition(non_machined, i) <=> ~detect_is_machined(inp[i])

\* what the code does for C3: the partition is complete once a row has been read,
\* and the run ends in KeyError when none has
C3_PartitionOfNonEmptyInput ==
    /\ (pc = "raised" /\ ~LoadFailed) => (inp = <<>> /\ err = "KeyError")
    /\ pc = "done" =>
          /\ inp # <<>>
          /\ Len(machined) + Len(non_machined) = Len(inp)
          /\ \A i \in DOMAIN inp :
                /\ InPartition(machined, i) <=> detect_is_machined(inp[i])
                /\ InPartition(non_machined, i) <=> ~detect_is_machined(inp[i])

\* float() does not yield a number: the cell is missing or is no numeric literal
NonNumeric(x) == x.na \/ py_float(x).kind # "num"

BadDimsRow(row) ==
    detect_is_lac(row) /\ (NonNumeric(row[<<"A","n","c","h","o">>]) \/ NonNumeric(row[<<"A","l","t","o">>]))

\* C8: a LAC record whose width or height is non-numeric or missing raises nothing: it
\* yields one output record tagged BAD_DIMS with empty Codigo_ALVIC, normalised
\* dimensions and DB dimensions, no colour filter is applied to it, and the rest of
\* the batch is processed.
C8_BadDimsRecoveredLocally ==
    /\ Len(out_rows) = Len(inp)
    /\ inp # <<>> => pc # "raised"
    /\ pc = "done" => Len(machined) + Len(non_machined) = Len(inp)
    /\ \A i \in DOMAIN inp :
          BadDimsRow(inp[i]) =>
              /\ out_rows[i].Match_type = "BAD_DIMS"
              /\ out_rows[i].Codigo_ALVIC = <<>>
              /\ out_rows[i].Color_filter_mode = ""
              /\ out_rows[i].Input_Ancho_norm = Blank /\ out_rows[i].Input_Alto_norm = Blank
              /\ out_rows[i].DB_Ancho = Blank /\ out_rows[i].DB_Alto = Blank

\* a run that ended after a BAD_DIMS record with a missing width was followed by a
\* matched record
C8_Witness ==
    /\ pc = "done"
    /\ Len(inp) >= 2
    /\ BadDimsRow(inp[1]) /\ inp[1][<<"A","n","c","h","o">>].na
    /\ out_rows[1].Match_type = "BAD_DIMS"
    /\ out_rows[2].Match_type = "EXACT"

-----------------------------------------------------------------------------
(* Claims about one record, under SpecOneRow *)

MatchTags == {"EXACT", "ROTATED_EXACT", "FIT", "ROTATED_FIT", "NO_MATCH"}

UnknownColor(row) ==
    ~(Truthy(color_text_of_row(row)) \/ Truthy(color_code_of_row(row)))

\* C4: the branches are taken in the order not-LAC, dimension parsing, colour
\* resolution, matching, the first applicable one ending the record with exactly one
\* output record: '' for a non-LAC record, else BAD_DIMS for unparsable dimensions,
\* else UNKNOWN_COLOR for an unresolved colour, else one of the matcher's tags.
C4_BranchOrder ==
    /\ Len(out_rows) = Len(inp)
    /\ pc = "done" => \A i \in DOMAIN inp :
          LET row == inp[i]
              tag == out_rows[i].Match_type
              lac == detect_is_lac(row)
              bad == NonNumeric(row[<<"A","n","c","h","o">>]) \/ NonNumeric(row[<<"A","l","t","o">>])
          IN  /\ tag \in {"", "BAD_DIMS", "UNKNOWN_COLOR"} \cup MatchTags
              /\ ~lac => tag = ""
              /\ (lac /\ bad) => tag = "BAD_DIMS"
              /\ (lac /\ ~bad /\ UnknownColor(row)) => tag = "UNKNOWN_COLOR"
              /\ (lac /\ ~bad /\ ~UnknownColor(row)) => tag \in MatchTags

\* a LAC record with unparsable dimensions and an unrecognised colour, tagged BAD_DIMS
C4_Witness ==
    pc = "done" /\ \E i \in DOMAIN out_rows :
        /\ BadDimsRow(inp[i])
        /\ UnknownColor(inp[i])
        /\ out_rows[i].Match_type = "BAD_DIMS"

\* neither Gama nor Material, where present, holds "LAC" once upper-cased
NoLacField(row) ==
    \A col \in {<<"G","a","m","a">>, <<"M","a","t","e","r","i","a","l">>} \cap DOMAIN row :
        ~str_contains(<<"L","A","C">>, str_upper(py_str(row[col])))

\* C5: a record whose Gama and Material do not hold 'LAC' has Es_LAC false, an empty
\* Match_type and every ALVIC-derived field empty, whatever its dimensions and colour.
C5_NonLacUntouched ==
    pc = "done" => \A i \in DOMAIN out_rows :
        NoLacField(inp[i]) =>
            /\ out_rows[i].Es_LAC = FALSE
            /\ out_rows[i].Match_type = ""
            /\ out_rows[i].Codigo_ALVIC = <<>>
            /\ out_rows[i].Color_ALVIC_text = <<>>
            /\ out_rows[i].Color_ALVIC_code = <<>>
            /\ out_rows[i].Color_filter_mode = ""
            /\ out_rows[i].Input_Ancho_norm = Blank /\ out_rows[i].Input_Alto_norm = Blank
            /\ out_rows[i].DB_Ancho = Blank /\ out_rows[i].DB_Alto = Blank

\* a non-LAC record with unparsable dimensions and an unrecognised colour was processed
C5_Witness ==
    pc = "done" /\ \E i \in DOMAIN out_rows :
        /\ NoLacField(inp[i])
        /\ NonNumeric(inp[i][<<"A","n","c","h","o">>]) /\ NonNumeric(inp[i][<<"A","l","t","o">>])
        /\ UnknownColor(inp[i])
        /\ out_rows[i].Match_type = ""

\* the entries of the catalog whose colour is the text t
WithColor(t) == SelectSeq(db, LAMBDA e : e.Color_raw = t)

\* C6 reads these off a record with a resolved colour
ByCode(row) ==
    IF Truthy(color_code_of_row(row)) THEN WithColor(color_code_of_row(row).text) ELSE <<>>
ByText(row) ==
    IF Truthy(color_text_of_row(row)) THEN WithColor(color_text_of_row(row).text) ELSE <<>>
ScopedCatalog(row) ==
    IF ByCode(row) # <<>> THEN ByCode(row)
    ELSE IF ByText(row) # <<>> THEN ByText(row)
    ELSE db
ScopeMode(row) ==
    IF ByCode(row) # <<>> THEN "CODE"
    ELSE IF ByText(row) # <<>> THEN "TEXT"
    ELSE "FALLBACK_NO_COLOR_FILTER"

Matchable(row) == detect_is_lac(row) /\ ~BadDimsRow(row) /\ ~UnknownColor(row)

\* C6: for a LAC record with a resolved colour the matcher is handed the entries of
\* the resolved code when there are any, else the entries of the resolved text when
\* there are any, else the whole catalog; Color_filter_mode is CODE, TEXT or
\* FALLBACK_NO_COLOR_FILTER accordingly, and the two sets are never merged.
C6_ColorScope ==
    pc = "done" => \A i \in DOMAIN out_rows :
        Matchable(inp[i]) =>
            LET o == out_rows[i]
                m == find_best_match(ScopedCatalog(inp[i]),
                                     o.Input_Ancho_norm.v, o.Input_Alto_norm.v)
            IN  /\ o.Color_filter_mode = ScopeMode(inp[i])
                /\ o.Match_type = m.match_type
                /\ o.Codigo_ALVIC = (IF m.found THEN m.row.ARTICULO ELSE <<>>)

\* the catalog holds entries of the code and other entries of the text, and the
\* record is matched among those of the code alone
C6_Witness ==
    pc = "done" /\ \E i \in DOMAIN out_rows :
        /\ Matchable(inp[i])
        /\ ByCode(inp[i]) # <<>> /\ ByText(inp[i]) # <<>>
        /\ out_rows[i].Color_filter_mode = "CODE"
        /\ out_rows[i].Match_type = "EXACT"

Trunc(t) == IF t >= 0 THEN t \div 10 ELSE 0 - ((0 - t) \div 10)
Clamp(d) == IF d < 100 THEN 100 ELSE d

\* C9: the width and height matched and recorded as Input_Ancho_norm and
\* Input_Alto_norm are clamp(trunc(width)) and clamp(trunc(height)), each on its own,
\* with clamp(d) = 100 below 100 and d from 100 on; they are at least 100, clamping
\* them again changes nothing, and width 80, height 250 matches an entry of width 100
\* and height 250 as EXACT.
C9_ClampedDimensions ==
    pc = "done" => \A i \in DOMAIN out_rows :
        (detect_is_lac(inp[i]) /\ ~BadDimsRow(inp[i])) =>
            LET o == out_rows[i]
                width == Trunc(py_float(inp[i][<<"A","n","c","h","o">>]).v)
                height == Trunc(py_float(inp[i][<<"A","l","t","o">>]).v)
            IN  /\ o.Input_Ancho_norm = Num(Clamp(width))
                /\ o.Input_Alto_norm = Num(Clamp(height))
                /\ o.Input_Ancho_norm.v >= 100 /\ o.Input_Alto_norm.v >= 100
                /\ clamp_min_100(o.Input_Ancho_norm.v) = o.Input_Ancho_norm.v
                /\ clamp_min_100(o.Input_Alto_norm.v) = o.Input_Alto_norm.v
                /\ ( /\ width = 80 /\ height = 250
                     /\ ~UnknownColor(inp[i])
                     /\ \E k \in DOMAIN ScopedCatalog(inp[i]) :
                           /\ ScopedCatalog(inp[i])[k].Ancho = 1000
                           /\ ScopedCatalog(inp[i])[k].Alto = 2500 )
                   => (o.Match_type = "EXACT" /\ o.DB_Ancho = Num(100) /\ o.DB_Alto = Num(250))

\* a record of width 80 and height 250 matched EXACT on an entry of width 100
C9_Witness ==
    pc = "done" /\ \E i \in DOMAIN out_rows :
        /\ inp[i][<<"A","n","c","h","o">>] = Cell(<<"8","0">>) /\ inp[i][<<"A","l","t","o">>] = Cell(<<"2","5","0">>)
        /\ out_rows[i].Input_Ancho_norm = Num(100)
        /\ out_rows[i].Input_Alto_norm = Num(250)
        /\ out_rows[i].Match_type = "EXACT"
        /\ out_rows[i].DB_Ancho = Num(100)

FoundTags == {"EXACT", "ROTATED_EXACT", "FIT", "ROTATED_FIT"}

\* C11: in every output record Codigo_ALVIC is non-empty exactly when Match_type is
\* EXACT, ROTATED_EXACT, FIT or ROTATED_FIT, and then DB_Ancho and DB_Alto are numbers
\* that enclose the normalized panel in the orientation of the tag: DB_Ancho >=
\* Input_Ancho_norm and DB_Alto >= Input_Alto_norm for EXACT and FIT, DB_Alto >=
\* Input_Ancho_norm and DB_Ancho >= Input_Alto_norm for the rotated tags, with
\* equality for EXACT and ROTATED_EXACT.
C11_MatchedRecordsEnclosed ==
    pc = "done" => \A i \in DOMAIN out_rows :
        LET o == out_rows[i]
            w == o.Input_Ancho_norm.v
            h == o.Input_Alto_norm.v
        IN  /\ (o.Codigo_ALVIC # <<>>) <=> (o.Match_type \in FoundTags)
            /\ o.Match_type \in FoundTags =>
                  /\ ~o.Input_Ancho_norm.blank /\ ~o.Input_Alto_norm.blank
                  /\ ~o.DB_Ancho.blank /\ ~o.DB_Alto.blank
            /\ o.Match_type = "EXACT" => (o.DB_Ancho.v = w /\ o.DB_Alto.v = h)
            /\ o.Match_type = "FIT" => (o.DB_Ancho.v >= w /\ o.DB_Alto.v >= h)
            /\ o.Match_type = "ROTATED_EXACT" => (o.DB_Alto.v = w /\ o.DB_Ancho.v = h)
            /\ o.Match_type = "ROTATED_FIT" => (o.DB_Alto.v >= w /\ o.DB_Ancho.v >= h)

\* a panel of width 250 and height 100 matched ROTATED_FIT on the entry of height
\* 300.5 and width 200, recorded as DB_Alto 300 and DB_Ancho 200
C11_Witness ==
    pc = "done" /\ \E i \in DOMAIN out_rows :
        /\ out_rows[i].Match_type = "ROTATED_FIT"
        /\ out_rows[i].Codigo_ALVIC = <<"X","3">>
        /\ out_rows[i].Input_Ancho_norm = Num(250)
        /\ out_rows[i].Input_Alto_norm = Num(100)
        /\ out_rows[i].DB_Alto = Num(300)
        /\ out_rows[i].DB_Ancho = Num(200)

-----------------------------------------------------------------------------
(* Claim about load_alvic_db, under SpecLoad *)

\* the file row an entry was read from
SourceOf(e) == l_csv[e.idx]

\* C7: after load_alvic_db every retained entry has an article code, a colour, a
\* numeric width and height and a model name that holds 'ZENIT' and '06' once
\* upper-cased; every file row that lacks its article code, colour, width or height
\* (or whose width or height does not parse) is dropped.
C7_RetainedEntriesComplete ==
    l_pc = "done" =>
        /\ \A k \in DOMAIN l_db :
              LET r == SourceOf(l_db[k])
              IN  /\ ~r.ARTICULO.na /\ ~r.Color.na
                  /\ ~NonNumeric(r.Alto) /\ ~NonNumeric(r.Ancho)
                  /\ str_contains(<<"Z","E","N","I","T">>, str_upper(l_db[k].Modelo))
                  /\ str_contains(<<"0","6">>, str_upper(l_db[k].Modelo))
        /\ \A i \in DOMAIN l_csv :
              (\/ l_csv[i].ARTICULO.na \/ l_csv[i].Color.na
               \/ NonNumeric(l_csv[i].Alto) \/ NonNumeric(l_csv[i].Ancho))
                  => \A k \in DOMAIN l_db : l_db[k].idx # i

\* what the code does for C7: the claim with the colour left out holds on every
\* build, and the whole claim on a build whose astype(str) keeps NaN
C7_AllButColor ==
    l_pc = "done" =>
        /\ l_env.keeps_na => C7_RetainedEntriesComplete
        /\ \A k \in DOMAIN l_db :
              LET r == SourceOf(l_db[k])
              IN  /\ ~r.ARTICULO.na
                  /\ ~NonNumeric(r.Alto) /\ ~NonNumeric(r.Ancho)
                  /\ str_contains(<<"Z","E","N","I","T">>, str_upper(l_db[k].Modelo))
                  /\ str_contains(<<"0","6">>, str_upper(l_db[k].Modelo))
        /\ \A i \in DOMAIN l_csv :
              (l_csv[i].ARTICULO.na \/ NonNumeric(l_csv[i].Alto) \/ NonNumeric(l_csv[i].Ancho))
                  => \A k \in DOMAIN l_db : l_db[k].idx # i

-----------------------------------------------------------------------------
(* Claim about _rename_columns_with_synonyms, under SpecRename *)

CanonicalNames == {synonyms[t][3] : t \in DOMAIN synonyms}

IsSynonym(col) == \E t \in DOMAIN synonyms : _canonicalize(col) \in keys_canon[t]

\* C10: names are compared case-insensitively with whitespace trimmed and collapsed,
\* and the first matching synonym wins: of several columns that are synonyms of one
\* canonical column only the first is renamed, so each canonical name appears at most
\* once in the result.
C10_FirstSynonymWins ==
    r_pc = "done" =>
        /\ Len(r_out) = Len(r_cols)
        /\ \A c \in CanonicalNames : Cardinality({i \in DOMAIN r_out : r_out[i] = c}) <= 1
        /\ \A i \in DOMAIN r_cols :
              (IsSynonym(r_cols[i])
               /\ \A j \in 1..(i - 1) : targets_of(r_cols[j]) # targets_of(r_cols[i]))
                  => r_out[i] \in CanonicalNames

\* what the code does for C10: every column that is a synonym is renamed, the first
\* or not
C10_EverySynonymRenamed ==
    r_pc = "done" =>
        /\ Len(r_out) = Len(r_cols)
        /\ \A i \in DOMAIN r_cols :
              IF IsSynonym(r_cols[i])
              THEN r_out[i] \in CanonicalNames
              ELSE r_out[i] = str_strip(r_cols[i])

====
